---- MODULE Spec2Model ----
(***************************************************************************)
(* Chat2Site backend: the per-IP daily quota gate (rateLimitMiddleware),   *)
(* the chat turn (ChatController.chat, ChatService.processChat) and the    *)
(* Redis keyspace both of them share (RedisService).                       *)
(*                                                                         *)
(* One request is one process.  Every `await` of the source is one step:   *)
(* the store call or the agent call takes effect at that step, and the     *)
(* synchronous code that follows it, up to the next await, runs with it.   *)
(***************************************************************************)
EXTENDS Integers, Sequences, FiniteSets

(***************************************************************************)
(* Bounds of the model.                                                    *)
(***************************************************************************)
NumReqs == 2
MaxLimit == 2
MaxUuids == 1
MaxHandles == 2
MaxAdvances == 1
Tick == 1800

(***************************************************************************)
(* Program constants.                                                      *)
(***************************************************************************)
SessionTTL == 3600
CounterTTL == 86400
NoExpiry == -1

Reqs == 1..NumReqs
IPs == {"10.0.0.1", "10.0.0.2"}
\* The allowlist without the root path.
ExemptPathsHealthOnly == {"/health"}

ExemptPaths == {"/health", "/"}
ChatPath == "/api/chat"
Paths == {"/health", "/", ChatPath}

(***************************************************************************)
(* Optional values (T | null): <<>> is null, <<x>> is the value x.         *)
(***************************************************************************)
None == <<>>
Some(x) == <<x>>
IsNone(o) == Len(o) = 0
Val(o) == o[1]

(***************************************************************************)
(* Strings are sequences of characters.  A generated token is the         *)
(* sequence <<"u", n>>, a string the caller made up is <<"c", n>>, a       *)
(* continuation handle (conversationId) is <<"h", n>>.                     *)
(***************************************************************************)
Uuid(n) == <<"u", n>>
CallerStrings == {<<"c", 1>>}
Handles == {<<"h", n>> : n \in 1..MaxHandles}

(***************************************************************************)
(* JSON values of a request body: a type tag and, for a string, its text.  *)
(***************************************************************************)
JUndefined == [type |-> "undefined", str |-> <<>>]
JNull == [type |-> "null", str |-> <<>>]
JNumber == [type |-> "number", str |-> <<>>]
\* A body that has not been read.
JUnread == [type |-> "unread", str |-> <<>>]
JString(s) == [type |-> "string", str |-> s]

\* The test token != null in place of !token: "" counts as a token.
TruthyNotNullish(j) == j.type \in {"number", "string"}

\* JavaScript truthiness of a body field: undefined, null and "" are falsy.
Truthy(j) == j.type = "number" \/ (j.type = "string" /\ Len(j.str) > 0)

(***************************************************************************)
(* Number.prototype.toString and parseInt on decimal strings.              *)
(***************************************************************************)
Digits == <<"0", "1", "2", "3", "4", "5", "6", "7", "8", "9">>
DigitChar(d) == Digits[d + 1]
IsDigit(c) == \E d \in 0..9 : Digits[d + 1] = c
DigitVal(c) == CHOOSE d \in 0..9 : Digits[d + 1] = c

RECURSIVE NatToString(_)
NatToString(n) ==
  IF n < 10 THEN <<DigitChar(n)>>
  ELSE Append(NatToString(n \div 10), DigitChar(n % 10))

ToString(n) == IF n < 0 THEN <<"-">> \o NatToString(0 - n) ELSE NatToString(n)

RECURSIVE ParseDigits(_, _)
ParseDigits(s, acc) ==
  IF Len(s) = 0 \/ ~IsDigit(Head(s)) THEN acc
  ELSE ParseDigits(Tail(s), 10 * acc + DigitVal(Head(s)))

\* parseInt of a string that starts with an optional sign and a digit.
ParseInt(s) ==
  IF Head(s) = "-" THEN 0 - ParseDigits(Tail(s), 0) ELSE ParseDigits(s, 0)

(***************************************************************************)
(* The Redis keyspace: a function from the keys present to                 *)
(* [val, exp]; exp is the instant the key expires, or NoExpiry.            *)
(***************************************************************************)
\* One counter for all callers.
RateKeyShared(ip) == <<"rate_limit", "all">>

RateKey(ip) == <<"rate_limit", ip>>
TokenKey(token) == <<"token", token, "lastResponseId">>

Has(s, k) == k \in DOMAIN s
Put(s, k, e) == [x \in DOMAIN s \cup {k} |-> IF x = k THEN e ELSE s[x]]

\* GET key
RedisGet(s, k) == IF Has(s, k) THEN Some(s[k].val) ELSE None
\* SETEX key ttl value
RedisSetEx(s, k, ttl, v, t) == Put(s, k, [val |-> v, exp |-> t + ttl])
\* DECR key: a missing key counts as 0 and is created without expiry.
RedisDecr(s, k) ==
  IF Has(s, k)
  THEN Put(s, k, [val |-> ToString(ParseInt(s[k].val) - 1), exp |-> s[k].exp])
  ELSE Put(s, k, [val |-> ToString(0 - 1), exp |-> NoExpiry])
\* The store's own expiry at instant t.
Expired(s, t) == {k \in DOMAIN s : s[k].exp # NoExpiry /\ s[k].exp <= t}
Purge(s, t) == [k \in DOMAIN s \ Expired(s, t) |-> s[k]]

VARIABLES
  limit,      \* RATE_LIMIT_PER_DAY
  now,        \* the store's clock, in seconds
  advances,   \* how often the clock has moved
  store,      \* the Redis keyspace
  req,        \* the requests in flight
  nextUuid,   \* the number of the next token uuidv4() returns
  known,      \* the generated tokens a response has handed to a caller
  admitted,   \* per IP: the requests admitted since its counter was created
  lastTurn,   \* per token: the handle of the turn that finished last, if it
              \* succeeded (a history kept where requests do not overlap)
  exited,     \* process.exit(1) has been called
  ownWrite    \* per request that has written the counter: the value that write
              \* left, and whether, between it and the request's quota read,
              \* another request of the IP was admitted, and the counter expired
              \* or was initialised again (a history)

vars == <<limit, now, advances, store, req, nextUuid, known, admitted, lastTurn, exited,
          ownWrite>>

Idle ==
  [pc |-> "idle", path |-> "", ip |-> "", msg |-> JUnread, tokenIn |-> JUnread,
   cur |-> None, token |-> <<>>, isNew |-> FALSE, looked |-> FALSE, prior |-> None,
   resp |-> None, remaining |-> None, out |-> "", writes |-> <<>>, agentStatus |-> None]

\* No counter write of the request is being followed.
NoWrite == [val |-> None, others |-> FALSE, reset |-> FALSE]

Tokens == {Uuid(n) : n \in 1..MaxUuids} \cup CallerStrings
Issued == {Uuid(n) : n \in 1..(nextUuid - 1)}

Init ==
  /\ limit \in 0..MaxLimit
  /\ now = 0
  /\ advances = 0
  /\ store = [k \in {} |-> Idle]
  /\ req = [r \in Reqs |-> Idle]
  /\ nextUuid = 1
  /\ known = {}
  /\ admitted = [ip \in IPs |-> 0]
  /\ lastTurn = [t \in Tokens |-> None]
  /\ exited = FALSE
  /\ ownWrite = [r \in Reqs |-> NoWrite]

(***************************************************************************)
(* rateLimiter.ts                                                          *)
(***************************************************************************)
\* getRateLimitCount taking the number 0 for a missing key: parseInt(count) || null
GetRateLimitCountFalsyZero(s, ip) ==
  LET count == RedisGet(s, RateKey(ip))
  IN  IF ~IsNone(count) /\ Len(Val(count)) > 0 /\ ParseInt(Val(count)) # 0
      THEN Some(ParseInt(Val(count))) ELSE None

\* RedisService.getRateLimitCount: count ? parseInt(count) : null
GetRateLimitCount(s, ip) ==
  LET count == RedisGet(s, RateKey(ip))
  IN  IF ~IsNone(count) /\ Len(Val(count)) > 0 THEN Some(ParseInt(Val(count))) ELSE None

\* setRateLimitCount by SET, without the expiry.
SetRateLimitCountNoExpiry(s, ip, count, t) ==
  Put(s, RateKey(ip), [val |-> ToString(count), exp |-> NoExpiry])

\* RedisService.setRateLimitCount: setEx(key, 86400, count.toString())
SetRateLimitCount(s, ip, count, t) == RedisSetEx(s, RateKey(ip), CounterTTL, ToString(count), t)

\* The decrement as one compare-and-decrement: a counter not above 0 is left alone.
DecrementRateLimitCountIfPositive(s, ip) ==
  IF Has(s, RateKey(ip)) /\ ParseInt(s[RateKey(ip)].val) <= 0 THEN s
  ELSE RedisDecr(s, RateKey(ip))

\* RedisService.decrementRateLimitCount: decr(key)
DecrementRateLimitCount(s, ip) == RedisDecr(s, RateKey(ip))

\* getRemainingRequests taking one more from the counter it reads.
GetRemainingRequestsMinusOne(s, lim, ip) ==
  LET remaining == GetRateLimitCount(s, ip)
  IN  IF ~IsNone(remaining) THEN Val(remaining) - 1 ELSE lim

\* getRemainingRequests with remaining || RATE_LIMIT_PER_DAY: 0 reads as the limit.
GetRemainingRequestsFalsyZero(s, lim, ip) ==
  LET remaining == GetRateLimitCount(s, ip)
  IN  IF ~IsNone(remaining) /\ Val(remaining) # 0 THEN Val(remaining) ELSE lim

\* getRemainingRequests: the counter, or the limit when there is none.
GetRemainingRequests(s, lim, ip) ==
  LET remaining == GetRateLimitCount(s, ip)
  IN  IF ~IsNone(remaining) THEN Val(remaining) ELSE lim

\* The first request not counted against the limit.
InitialCountFull(lim) == lim

\* The first value the limiter writes for an IP.
InitialCount(lim) == lim - 1

\* The branch with next() called before the counter is initialised.
DecideAdmitUnwritten(cur) ==
  IF IsNone(cur) THEN "body"
  ELSE IF Val(cur) <= 0 THEN "reject"
  ELSE "decr"

\* The branch with the test currentCount === 0.
DecideOnlyZero(cur) ==
  IF IsNone(cur) THEN "set"
  ELSE IF Val(cur) = 0 THEN "reject"
  ELSE "decr"

\* The branch with the test currentCount < 0.
DecideBelowZero(cur) ==
  IF IsNone(cur) THEN "set"
  ELSE IF Val(cur) < 0 THEN "reject"
  ELSE "decr"

\* The branch rateLimitMiddleware takes on the value it read.
Decide(cur) ==
  IF IsNone(cur) THEN "set"
  ELSE IF Val(cur) <= 0 THEN "reject"
  ELSE "decr"

InFlight == {q \in Reqs : req[q].pc # "idle"}

\* ChatRequestSchema with msg: z.string(), without min(1).
ChatRequestValidAnyString(msg, tok) ==
  /\ msg.type = "string"
  /\ tok.type \in {"string", "null", "undefined"}

\* ChatRequestSchema: msg a string of at least one character, token nullish or a string.
ChatRequestValid(msg, tok) ==
  /\ msg.type = "string" /\ Len(msg.str) >= 1
  /\ tok.type \in {"string", "null", "undefined"}

MsgInputs == {JString(<<"h", "i">>), JString(<<>>), JUndefined, JNumber}
TokenInputs ==
  {JUndefined, JNull, JString(<<>>), JNumber} \cup {JString(t) : t \in known \cup CallerStrings}

\* A request arrives in the lowest free slot; at most k requests are in flight.
Arrives(r, k) ==
  /\ ~exited
  /\ req[r].pc = "idle"
  /\ \A q \in Reqs : q < r => req[q].pc # "idle"
  /\ Cardinality(InFlight) < k

\* rateLimitMiddleware on /health and /: next() at once, and the probe answers.
RateLimitSkip(r, k, ips) ==
  /\ Arrives(r, k)
  /\ \E path \in ExemptPaths, ip \in ips :
       req' = [req EXCEPT ![r] = [Idle EXCEPT !.pc = "done", !.path = path, !.ip = ip,
                                              !.out = "probe"]]
  /\ UNCHANGED <<ownWrite, exited, limit, now, advances, store, nextUuid, known, admitted, lastTurn>>

\* rateLimitMiddleware on any other path: await getRateLimitCount(ip), and the
\* branch on its result; a value <= 0 throws Boom.tooManyRequests.
RateLimitRead(r, k, ips) ==
  /\ Arrives(r, k)
  /\ \E path \in Paths \ ExemptPaths, ip \in ips :
       LET cur == GetRateLimitCount(store, ip)
           d == Decide(cur)
       IN  req' = [req EXCEPT ![r] =
                     [Idle EXCEPT !.path = path, !.ip = ip, !.cur = cur,
                                  !.pc = IF d = "reject" THEN "done" ELSE d,
                                  !.out = IF d = "reject" THEN "quota" ELSE ""]]
  /\ UNCHANGED <<ownWrite, exited, limit, now, advances, store, nextUuid, known, admitted, lastTurn>>

\* The history after the counter write of r has left the store s: r's own value
\* is the counter's, and every other request of the IP that is between its own
\* write and its quota read has seen another admitted (and, with init, the
\* counter initialised again).
OwnWritten(r, s, init) ==
  [q \in Reqs |->
     IF q = r
     THEN [val |-> Some(ParseInt(s[RateKey(req[r].ip)].val)), others |-> FALSE,
           reset |-> FALSE]
     ELSE IF req[q].ip = req[r].ip /\ ~IsNone(ownWrite[q].val) /\ req[q].pc # "done"
     THEN [ownWrite[q] EXCEPT !.others = TRUE, !.reset = @ \/ init]
     ELSE ownWrite[q]]

\* The history once the request r is over.
OwnCleared(r) == [ownWrite EXCEPT ![r] = NoWrite]

\* await setRateLimitCount(ip, RATE_LIMIT_PER_DAY - 1), then next().
RateLimitSet(r) ==
  /\ ~exited /\ req[r].pc = "set"
  /\ store' = SetRateLimitCount(store, req[r].ip, InitialCount(limit), now)
  /\ ownWrite' = OwnWritten(r, store', TRUE)
  /\ admitted' = [admitted EXCEPT ![req[r].ip] =
                    IF Has(store, RateKey(req[r].ip)) THEN @ + 1 ELSE 1]
  /\ req' = [req EXCEPT ![r].pc = "body",
                        ![r].writes = Append(@, RateKey(req[r].ip))]
  /\ UNCHANGED <<exited, limit, now, advances, nextUuid, known, lastTurn>>

\* await decrementRateLimitCount(ip), then next().
RateLimitDecr(r) ==
  /\ ~exited /\ req[r].pc = "decr"
  /\ store' = DecrementRateLimitCount(store, req[r].ip)
  /\ ownWrite' = OwnWritten(r, store', FALSE)
  /\ admitted' = [admitted EXCEPT ![req[r].ip] =
                    IF Has(store, RateKey(req[r].ip)) THEN @ + 1 ELSE 1]
  /\ req' = [req EXCEPT ![r].pc = "body",
                        ![r].writes = Append(@, RateKey(req[r].ip))]
  /\ UNCHANGED <<exited, limit, now, advances, nextUuid, known, lastTurn>>

(***************************************************************************)
(* chat.controller.ts, ChatService.processChat, AIService.processMessage   *)
(***************************************************************************)
\* ChatResponseSchema: token and responseId not empty, remainingRequests >= 0.
ChatResponseValid(token, responseId, remaining) ==
  /\ Len(token) >= 1
  /\ Len(responseId) >= 1
  /\ remaining >= 0

\* express.json() reads the body, the route runs ChatController.chat, which runs
\* ChatRequestSchema.parse and the token branch of processChat: a missing token
\* is generated (while uuidv4() has one left to give), a given one is looked up next.
Chat(r) ==
  /\ ~exited /\ req[r].pc = "body"
  /\ \E msg \in MsgInputs, tok \in TokenInputs :
       IF ~ChatRequestValid(msg, tok)
       THEN /\ req' = [req EXCEPT ![r].pc = "done", ![r].msg = msg, ![r].cur = None,
                                  ![r].out = "validation"]
            /\ ownWrite' = OwnCleared(r)
            /\ UNCHANGED nextUuid
       ELSE IF ~Truthy(tok)
       THEN /\ nextUuid <= MaxUuids
            /\ req' = [req EXCEPT ![r].pc = "agent", ![r].msg = msg, ![r].tokenIn = tok,
                                  ![r].cur = None,
                                  ![r].token = Uuid(nextUuid), ![r].isNew = TRUE]
            /\ nextUuid' = nextUuid + 1
            /\ UNCHANGED ownWrite
       ELSE /\ req' = [req EXCEPT ![r].pc = "lookup", ![r].msg = msg, ![r].tokenIn = tok,
                                  ![r].cur = None,
                                  ![r].token = tok.str]
            /\ UNCHANGED <<nextUuid, ownWrite>>
  /\ UNCHANGED <<exited, limit, now, advances, store, known, admitted, lastTurn>>

\* RedisService.getLastResponseId
GetLastResponseId(s, token) == RedisGet(s, TokenKey(token))
\* setLastResponseId by SET KEEPTTL: a mapping that exists keeps its expiry.
SetLastResponseIdKeepTTL(s, token, responseId, t) ==
  IF Has(s, TokenKey(token))
  THEN Put(s, TokenKey(token), [val |-> responseId, exp |-> s[TokenKey(token)].exp])
  ELSE RedisSetEx(s, TokenKey(token), SessionTTL, responseId, t)

\* setLastResponseId by SET NX: a mapping that exists is kept (first writer wins).
SetLastResponseIdIfAbsent(s, token, responseId, t) ==
  IF Has(s, TokenKey(token)) THEN s
  ELSE RedisSetEx(s, TokenKey(token), SessionTTL, responseId, t)

\* setLastResponseId by SET XX: only a mapping that exists is written.
SetLastResponseIdOnlyExisting(s, token, responseId, t) ==
  IF Has(s, TokenKey(token))
  THEN RedisSetEx(s, TokenKey(token), SessionTTL, responseId, t)
  ELSE s

\* RedisService.setLastResponseId: setEx(key, 3600, responseId)
SetLastResponseId(s, token, responseId, t) ==
  RedisSetEx(s, TokenKey(token), SessionTTL, responseId, t)

\* await getLastResponseId(token)
Lookup(r) ==
  /\ ~exited /\ req[r].pc = "lookup"
  /\ req' = [req EXCEPT ![r].pc = "agent", ![r].looked = TRUE,
                        ![r].prior = GetLastResponseId(store, req[r].token)]
  /\ UNCHANGED <<ownWrite, exited, limit, now, advances, store, nextUuid, known, admitted, lastTurn>>

\* The stored handle not passed on to the agent.
PriorHandleDropped(prior) == None

\* lastResponseId || undefined
PriorHandle(prior) == IF ~IsNone(prior) /\ Len(Val(prior)) > 0 THEN prior ELSE None

\* What the agent's server answers: an HTTP status (0: no answer before the
\* timeout) and, with 200, the conversationId of the body, if it has one.
AgentResults ==
  {[status |-> 200, conv |-> Some(h)] : h \in Handles}
    \cup {[status |-> s, conv |-> None] : s \in {200, 429, 500, 503, 401, 400, 0}}

\* AIResponseSchema: conversationId a string of at least one character.
AIResponseValid(res) == ~IsNone(res.conv) /\ Len(Val(res.conv)) >= 1

\* The catch block with the test status > 500.
ClassifyAgentErrorAbove500(res) ==
  LET status == IF res.status \in {0, 200} THEN None ELSE Some(res.status)
  IN  IF ~IsNone(status) /\ Val(status) = 429 THEN "agent_rate_limited"
      ELSE IF ~IsNone(status) /\ Val(status) > 500 THEN "agent_unavailable"
      ELSE IF ~IsNone(status) /\ Val(status) = 401 THEN "agent_unauthorized"
      ELSE "agent_generic"

\* The catch block of processMessage.  An axios error carries the response
\* status; a timeout and a ZodError of AIResponseSchema carry no response.
ClassifyAgentError(res) ==
  LET status == IF res.status \in {0, 200} THEN None ELSE Some(res.status)
  IN  IF ~IsNone(status) /\ Val(status) = 429 THEN "agent_rate_limited"
      ELSE IF ~IsNone(status) /\ Val(status) >= 500 THEN "agent_unavailable"
      ELSE IF ~IsNone(status) /\ Val(status) = 401 THEN "agent_unauthorized"
      ELSE "agent_generic"

\* The session dropped on a failed agent call (RedisService.deleteToken).
AfterAgentFailureDeletes(s, token) == [k \in DOMAIN s \ {TokenKey(token)} |-> s[k]]

\* The store after a failed agent call: processChat has thrown, nothing is written.
AfterAgentFailure(s, token) == s

\* The body processChat posts to the agent.
AgentPayload(q) == [message |-> q.msg.str, lastResponseId |-> PriorHandle(q.prior)]

\* await aiService.processMessage({message, lastResponseId}): the agent answers
\* the payload, and processChat goes on with the handle or throws.
AgentCall(r, hist) ==
  /\ ~exited /\ req[r].pc = "agent"
  /\ \E res \in AgentResults :
       IF res.status = 200 /\ AIResponseValid(res)
       THEN /\ req' = [req EXCEPT ![r].pc = "persist", ![r].resp = res.conv,
                                  ![r].agentStatus = Some(res.status)]
            /\ UNCHANGED <<store, lastTurn, ownWrite>>
       ELSE /\ req' = [req EXCEPT ![r].pc = "done", ![r].out = ClassifyAgentError(res),
                                  ![r].agentStatus = Some(res.status)]
            /\ store' = AfterAgentFailure(store, req[r].token)
            /\ ownWrite' = OwnCleared(r)
            /\ lastTurn' = IF hist THEN [lastTurn EXCEPT ![req[r].token] = None]
                           ELSE lastTurn
  /\ UNCHANGED <<exited, limit, now, advances, nextUuid, known, admitted>>

\* await setLastResponseId(token, aiResponse.conversationId)
Persist(r) ==
  /\ ~exited /\ req[r].pc = "persist"
  /\ store' = SetLastResponseId(store, req[r].token, Val(req[r].resp), now)
  /\ req' = [req EXCEPT ![r].pc = "quota",
                        ![r].writes = Append(@, TokenKey(req[r].token))]
  /\ UNCHANGED <<ownWrite, exited, limit, now, advances, nextUuid, known, admitted, lastTurn>>

\* await getRemainingRequests(ip), ChatResponseSchema.parse, and the answer:
\* 200, or the 400 the controller makes of a ZodError.
QuotaRead(r, hist) ==
  /\ ~exited /\ req[r].pc = "quota"
  /\ LET remaining == GetRemainingRequests(store, limit, req[r].ip)
         ok == ChatResponseValid(req[r].token, Val(req[r].resp), remaining)
     IN  /\ req' = [req EXCEPT ![r].pc = "done", ![r].remaining = Some(remaining),
                               ![r].out = IF ok THEN "ok" ELSE "validation"]
         /\ lastTurn' = IF hist
                         THEN [lastTurn EXCEPT ![req[r].token] =
                                 IF ok THEN req[r].resp ELSE None]
                         ELSE lastTurn
         /\ known' = IF ok /\ req[r].isNew THEN known \cup {req[r].token} ELSE known
  /\ UNCHANGED <<ownWrite, exited, limit, now, advances, store, nextUuid, admitted>>

\* The HTTP status of each way a request ends (the Boom error thrown).
Status(out) ==
  CASE out \in {"ok", "probe"} -> 200
    [] out \in {"quota", "agent_rate_limited"} -> 429
    [] out = "agent_unavailable" -> 502
    [] out = "agent_unauthorized" -> 401
    [] out \in {"validation", "agent_generic"} -> 400

\* The response is sent; the request is over.
Finish(r) ==
  /\ ~exited /\ req[r].pc = "done"
  /\ req' = [req EXCEPT ![r] = Idle]
  /\ ownWrite' = OwnCleared(r)
  /\ UNCHANGED <<exited, limit, now, advances, store, nextUuid, known, admitted, lastTurn>>

(***************************************************************************)
(* Errors.  rateLimitMiddleware is an async function handed to app.use as  *)
(* it is: what it throws rejects its promise.  Express 5 passes the        *)
(* rejection on to the error middleware; Express 4 drops the promise, and  *)
(* the rejection reaches process.on('unhandledRejection').  The source     *)
(* does not fix the version, so both are outcomes.  The controller is      *)
(* wrapped in asyncHandler: what it throws reaches the error middleware.   *)
(***************************************************************************)
\* The errors that leave rateLimitMiddleware: its own 429 and a rejected store call.
GateErrors == {"quota", "store_gate"}
\* A rejected store call inside the turn.
StoreErrors == {"store_gate", "store_turn"}

\* process.on('unhandledRejection'): the rejection of the limiter's promise ends
\* the process, and no request in flight is answered.
Unhandled(r) ==
  /\ ~exited /\ req[r].pc = "done" /\ req[r].out \in GateErrors
  /\ exited' = TRUE
  /\ UNCHANGED <<ownWrite, limit, now, advances, store, req, nextUuid, known, admitted, lastTurn>>

\* errorMiddleware: a Boom error is answered with its status, any other error with 500.
ErrorMiddleware(out) == IF out \in StoreErrors THEN 500 ELSE Status(out)

\* The message of the limiter's Boom.tooManyRequests.
QuotaMessage(lim) ==
  <<"You have exceeded the daily limit of ">> \o ToString(lim)
    \o <<" requests. Please try again tomorrow.">>

\* What the caller of a finished request is sent.
Response(q, lim) ==
  [status |-> ErrorMiddleware(q.out),
   message |-> IF q.out = "quota" THEN QuotaMessage(lim) ELSE <<>>]

\* The limiter repeating a store call that was rejected.
GateOnStoreErrorRetry(pc) == pc

\* The limiter degrading to an ungated mode: the error is caught, next() is called.
GateOnStoreErrorFailOpen(pc) == "body"

\* Where the limiter is after a store call of its own was rejected: the await
\* throws, next() is not reached.
GateOnStoreError(pc) == "done"

\* await getRateLimitCount(ip) is rejected: the store cannot be reached.
RateLimitReadFails(r, k, ips) ==
  /\ Arrives(r, k)
  /\ \E path \in Paths \ ExemptPaths, ip \in ips :
       req' = [req EXCEPT ![r] =
                 [Idle EXCEPT !.path = path, !.ip = ip, !.pc = GateOnStoreError("idle"),
                              !.out = "store_gate"]]
  /\ UNCHANGED <<ownWrite, exited, limit, now, advances, store, nextUuid, known, admitted, lastTurn>>

\* await setRateLimitCount / decrementRateLimitCount is rejected.
RateLimitWriteFails(r) ==
  /\ ~exited /\ req[r].pc \in {"set", "decr"}
  /\ req' = [req EXCEPT ![r].pc = GateOnStoreError(req[r].pc), ![r].out = "store_gate"]
  /\ UNCHANGED <<ownWrite, exited, limit, now, advances, store, nextUuid, known, admitted, lastTurn>>

\* A store call of processChat is rejected (getLastResponseId, setLastResponseId,
\* getRemainingRequests): processChat throws, the controller rethrows.
TurnStoreFails(r, hist) ==
  /\ ~exited /\ req[r].pc \in {"lookup", "persist", "quota"}
  /\ req' = [req EXCEPT ![r].pc = "done", ![r].out = "store_turn"]
  /\ lastTurn' = IF hist THEN [lastTurn EXCEPT ![req[r].token] = None] ELSE lastTurn
  /\ ownWrite' = OwnCleared(r)
  /\ UNCHANGED <<exited, limit, now, advances, store, nextUuid, known, admitted>>

\* Time passes by d seconds and the store drops the keys that have expired.
\* With quiet, only while no request is in flight.
Advance(d, quiet) ==
  /\ advances < MaxAdvances
  /\ quiet => InFlight = {}
  /\ advances' = advances + 1
  /\ now' = now + d
  /\ store' = Purge(store, now')
  /\ admitted' = [ip \in IPs |->
                    IF RateKey(ip) \in Expired(store, now') THEN 0 ELSE admitted[ip]]
  /\ lastTurn' = [t \in Tokens |->
                    IF TokenKey(t) \in Expired(store, now') THEN None ELSE lastTurn[t]]
  /\ ownWrite' = [q \in Reqs |->
                    IF /\ ~IsNone(ownWrite[q].val) /\ req[q].pc # "done"
                       /\ RateKey(req[q].ip) \in Expired(store, now')
                    THEN [ownWrite[q] EXCEPT !.reset = TRUE] ELSE ownWrite[q]]
  /\ UNCHANGED <<exited, limit, req, nextUuid, known>>

Step(r, hist) ==
  \/ RateLimitSet(r)
  \/ RateLimitDecr(r)
  \/ Chat(r)
  \/ Lookup(r)
  \/ AgentCall(r, hist)
  \/ Persist(r)
  \/ QuotaRead(r, hist)
  \/ Finish(r)

\* The caller whose requests overlap.
Caller == {"10.0.0.1"}

\* Requests of one caller overlap freely, and time passes at any moment.
Next ==
  \/ \E r \in Reqs : RateLimitSkip(r, NumReqs, Caller)
  \/ \E r \in Reqs : RateLimitRead(r, NumReqs, Caller)
  \/ \E r \in Reqs : Step(r, FALSE)
  \/ \E d \in {Tick, CounterTTL} : Advance(d, FALSE)
  \/ \E r \in Reqs : Unhandled(r)

Spec == Init /\ [][Next]_vars

\* Requests of all callers are handled one at a time, and time passes between them.
NextSeq ==
  \/ \E r \in Reqs : RateLimitSkip(r, 1, IPs)
  \/ \E r \in Reqs : RateLimitRead(r, 1, IPs)
  \/ \E r \in Reqs : Step(r, TRUE)
  \/ \E d \in {Tick, CounterTTL} : Advance(d, TRUE)
  \/ \E r \in Reqs : Unhandled(r)

SpecSeq == Init /\ [][NextSeq]_vars

\* Overlapping requests of one caller, with a store that may be out of reach.
NextFail ==
  \/ \E r \in Reqs : RateLimitSkip(r, NumReqs, Caller)
  \/ \E r \in Reqs : RateLimitRead(r, NumReqs, Caller)
  \/ \E r \in Reqs : Step(r, FALSE)
  \/ \E r \in Reqs : Unhandled(r)
  \/ \E r \in Reqs : RateLimitReadFails(r, NumReqs, Caller)
  \/ \E r \in Reqs : RateLimitWriteFails(r)
  \/ \E r \in Reqs : TurnStoreFails(r, FALSE)

SpecFail == Init /\ [][NextFail]_vars


(***************************************************************************)
(* The claims.                                                             *)
(***************************************************************************)
Rejected(q) == q.pc = "done" /\ q.out = "quota"
Succeeded(q) == q.pc = "done" /\ q.out = "ok"
\* Request r arrives at the limiter in this step.
Arrival(r) == req[r].pc = "idle" /\ req'[r].pc # "idle" /\ req'[r].path \notin ExemptPaths
\* Request r is passed on by the limiter (next()) in this step.
Admission(r) == req[r].pc \in {"set", "decr"} /\ req'[r].pc = "body"

\* C1: with a limit N >= 1 and requests handled one at a time, an IP that starts
\* without a counter has at most N requests admitted per window, a request is
\* rejected only once N have been admitted, and after the k-th admitted request
\* remaining(ip) is N - k, which is also what a successful turn reports.
C1_ExactlyLimitAdmitted ==
  limit >= 1 =>
    \A ip \in IPs :
      /\ admitted[ip] <= limit
      /\ Has(store, RateKey(ip)) =>
           /\ admitted[ip] >= 1
           /\ GetRemainingRequests(store, limit, ip) = limit - admitted[ip]
      /\ ~Has(store, RateKey(ip)) => admitted[ip] = 0
      /\ \A r \in Reqs :
           /\ (Rejected(req[r]) /\ req[r].ip = ip) => admitted[ip] = limit
           /\ (req[r].pc \in {"set", "decr"} /\ req[r].ip = ip) => admitted[ip] < limit
           /\ (Succeeded(req[r]) /\ req[r].ip = ip) =>
                Val(req[r].remaining) = limit - admitted[ip]

\* The request after the N-th is rejected and remaining(ip) is 0 (N = 2).
C1_Witness ==
  \E r \in Reqs :
    /\ limit = 2 /\ Rejected(req[r]) /\ admitted[req[r].ip] = 2
    /\ GetRemainingRequests(store, limit, req[r].ip) = 0

\* C2: a request that finds no counter for its IP is admitted, whatever the
\* limit (0 included); its write leaves the counter at limit - 1 with an expiry
\* 24 hours ahead, and remaining(ip) then returns limit - 1.
C2_FirstRequestInitialises ==
  [][\A r \in Reqs :
       /\ (Arrival(r) /\ ~Has(store, RateKey(req'[r].ip))) => req'[r].pc = "set"
       /\ (req[r].pc = "set" /\ req'[r] # req[r]) =>
            /\ req'[r].pc = "body"
            /\ Has(store', RateKey(req[r].ip))
            /\ ParseInt(store'[RateKey(req[r].ip)].val) = limit - 1
            /\ store'[RateKey(req[r].ip)].exp = now + 86400
            /\ GetRemainingRequests(store', limit, req[r].ip) = limit - 1]_vars

\* With limit 0 the first request is passed on and the counter reads -1.
C2_Witness ==
  \E r \in Reqs :
    /\ limit = 0 /\ req[r].pc = "body" /\ req[r].writes = <<RateKey(req[r].ip)>>
    /\ GetRemainingRequests(store, limit, req[r].ip) = 0 - 1

\* C3: a request that arrives while the counter of its IP holds a value <= 0 is
\* rejected, and neither its rejection nor anything it does afterwards changes
\* the store.
C3_RejectLeavesCounter ==
  [][\A r \in Reqs :
       /\ (/\ Arrival(r)
           /\ Has(store, RateKey(req'[r].ip))
           /\ ParseInt(store[RateKey(req'[r].ip)].val) <= 0)
            => (Rejected(req'[r]) /\ Status(req'[r].out) = 429 /\ store' = store)
       /\ (Rejected(req[r]) /\ req'[r] # req[r]) => store' = store]_vars

\* A request is rejected on the value 0, and the counter still holds 0.
C3_Witness ==
  \E r \in Reqs :
    /\ Rejected(req[r]) /\ req[r].cur = Some(0)
    /\ Has(store, RateKey(req[r].ip)) /\ store[RateKey(req[r].ip)].val = <<"0">>

\* C4: whenever the limiter passes a request on, also among overlapping requests
\* of one IP, the value that request read was absent or greater than 0.
C4_AdmittedObservedPositive ==
  [][\A r \in Reqs :
       Admission(r) => (IsNone(req[r].cur) \/ Val(req[r].cur) > 0)]_vars

\* A request that read 1 is about to be passed on although the counter has
\* meanwhile dropped to 0.
C4_Witness ==
  \E r \in Reqs :
    /\ req[r].pc = "decr" /\ req[r].cur = Some(1)
    /\ GetRateLimitCount(store, req[r].ip) = Some(0)


\* The turn of q has resolved its token and is at or past its agent call.
InTurn(q) == q.pc \in {"agent", "persist", "quota"} \/ (q.pc = "done" /\ q.tokenIn # JUnread)
\* The request carried no token: absent, null or the empty string.
CarriesNoToken(j) == j.type \in {"undefined", "null"} \/ (j.type = "string" /\ Len(j.str) = 0)
CarriesToken(j) == j.type = "string" /\ Len(j.str) >= 1
AgentErrors == {"agent_rate_limited", "agent_unavailable", "agent_unauthorized", "agent_generic"}
MsgInvalid(msg) == msg.type # "string" \/ Len(msg.str) = 0

\* C5: when the turn that last finished on a token succeeded and its mapping has
\* not expired, the next turn on that token posts to the agent, as prior handle,
\* exactly the handle the earlier turn's agent call returned.
C5_SecondTurnCarriesHandle ==
  \A r \in Reqs :
    (/\ req[r].pc \in {"agent", "persist", "quota"}
     /\ req[r].looked
     /\ ~IsNone(lastTurn[req[r].token]))
      => AgentPayload(req[r]).lastResponseId = lastTurn[req[r].token]

\* The second turn on a token has got its own handle from the agent after
\* posting the handle of the first.
C5_Witness ==
  \E r \in Reqs :
    /\ req[r].pc = "persist" /\ req[r].looked
    /\ lastTurn[req[r].token] = Some(<<"h", 1>>)
    /\ AgentPayload(req[r]).lastResponseId = Some(<<"h", 1>>)
    /\ req[r].resp = Some(<<"h", 2>>)

\* C6: after a successful turn, on a new token or a reused one, the store maps
\* the response's token to the handle of that turn's agent call with an expiry
\* one hour ahead, and reading it back returns that handle; with turns that do
\* not overlap, a token's mapping is, from the end of a successful turn to the
\* write of the next one, the handle of that turn.
C6_MappingIsLatestHandle ==
  /\ \A r \in Reqs :
       Succeeded(req[r]) =>
         /\ Has(store, TokenKey(req[r].token))
         /\ store[TokenKey(req[r].token)] = [val |-> Val(req[r].resp), exp |-> now + 3600]
         /\ GetLastResponseId(store, req[r].token) = req[r].resp
  /\ \A t \in Tokens :
       (~IsNone(lastTurn[t]) /\ ~\E r \in Reqs : req[r].pc = "quota" /\ req[r].token = t) =>
         GetLastResponseId(store, t) = lastTurn[t]

\* A reused token's turn succeeds half an hour after the first one: the mapping
\* holds the new handle, and its expiry has moved.
C6_Witness ==
  \E r \in Reqs :
    /\ Succeeded(req[r]) /\ req[r].looked /\ now = Tick
    /\ req[r].prior = Some(<<"h", 1>>) /\ req[r].resp = Some(<<"h", 2>>)
    /\ store[TokenKey(req[r].token)] = [val |-> <<"h", 2>>, exp |-> Tick + 3600]

\* C7: a turn whose request carries no token (absent, null or empty) gets a
\* generated, non-empty token no mapping exists for, has isNewToken true, and
\* posts to the agent without a prior handle and without a lookup; a turn whose
\* request carries a non-empty token keeps that token and has isNewToken false.
C7_TokenResolution ==
  /\ [] \A r \in Reqs :
       /\ req[r].pc = "lookup" => CarriesToken(req[r].tokenIn)
       /\ (InTurn(req[r]) /\ CarriesNoToken(req[r].tokenIn)) =>
            /\ req[r].isNew
            /\ ~req[r].looked
            /\ Len(req[r].token) >= 1
            /\ req[r].token \in Issued
            /\ req[r].token \notin CallerStrings
            /\ IsNone(AgentPayload(req[r]).lastResponseId)
            /\ \A q \in Reqs \ {r} : InTurn(req[q]) /\ req[q].isNew => req[q].token # req[r].token
       /\ (InTurn(req[r]) /\ CarriesToken(req[r].tokenIn)) =>
            /\ req[r].token = req[r].tokenIn.str
            /\ ~req[r].isNew
  /\ [][\A r \in Reqs :
          (req[r].pc = "body" /\ req'[r].pc = "agent") =>
            (req'[r].isNew /\ ~Has(store, TokenKey(req'[r].token)))]_vars

\* A turn without a token and a turn with one have both succeeded.
C7_Witness ==
  \E r, q \in Reqs :
    /\ Succeeded(req[r]) /\ req[r].tokenIn = JString(<<>>) /\ req[r].isNew
    /\ Succeeded(req[q]) /\ CarriesToken(req[q].tokenIn) /\ ~req[q].isNew

\* C8: a turn that presents a token and finds no mapping for it goes on: it
\* posts to the agent without a prior handle, keeps the caller's token with
\* isNewToken false, and its persist step stores the new handle under that token.
C8_MissRestartsSession ==
  /\ [] \A r \in Reqs :
       (InTurn(req[r]) /\ req[r].looked /\ IsNone(req[r].prior)) =>
         /\ IsNone(AgentPayload(req[r]).lastResponseId)
         /\ req[r].token = req[r].tokenIn.str
         /\ ~req[r].isNew
         /\ req[r].pc \in {"quota", "done"} /\ ~IsNone(req[r].resp) =>
              TokenKey(req[r].tokenIn.str) \in {req[r].writes[i] : i \in 1..Len(req[r].writes)}
  /\ [][\A r \in Reqs :
          /\ (req[r].pc = "lookup" /\ req'[r] # req[r]) => req'[r].pc = "agent"
          /\ (req[r].pc = "persist" /\ req'[r] # req[r] /\ req[r].looked /\ IsNone(req[r].prior)) =>
               /\ Has(store', TokenKey(req[r].tokenIn.str))
               /\ store'[TokenKey(req[r].tokenIn.str)].val = Val(req[r].resp)]_vars

\* A turn on a token without mapping has succeeded, and the mapping is there.
C8_Witness ==
  \E r \in Reqs :
    /\ Succeeded(req[r]) /\ req[r].looked /\ IsNone(req[r].prior)
    /\ req[r].token = <<"c", 1>>
    /\ GetLastResponseId(store, <<"c", 1>>) = req[r].resp

\* C9: a turn whose agent call fails ends with the agent's error, and neither
\* that step nor anything the turn does afterwards changes the store: no handle
\* is written, the token's mapping keeps its value and expiry, or stays absent.
C9_AgentFailureLeavesMapping ==
  /\ [] \A r \in Reqs :
       (req[r].pc = "done" /\ req[r].out \in AgentErrors) =>
         /\ IsNone(req[r].resp)
         /\ Status(req[r].out) \in {429, 502, 401, 400}
         /\ \A i \in 1..Len(req[r].writes) : req[r].writes[i] # TokenKey(req[r].token)
  /\ [][\A r \in Reqs :
          /\ (req[r].pc = "agent" /\ req'[r].pc = "done") =>
               (req'[r].out \in AgentErrors /\ store' = store)
          /\ (req[r].pc = "done" /\ req[r].out \in AgentErrors /\ req'[r] # req[r]) =>
               store' = store]_vars

\* The agent call of a turn on a token with a mapping has failed, and the
\* mapping is the one the turn found.
C9_Witness ==
  \E r \in Reqs :
    /\ req[r].pc = "done" /\ req[r].out = "agent_unavailable"
    /\ req[r].looked /\ ~IsNone(req[r].prior)
    /\ GetLastResponseId(store, req[r].token) = req[r].prior

\* C10 as stated: a chat request whose msg is empty, missing or not a string is
\* answered with 400, and handling it changes nothing in the store, the quota
\* counter of the caller's IP included, and calls no agent.
C10_InvalidMsgNoMutation ==
  \A r \in Reqs :
    (req[r].pc = "done" /\ req[r].msg # JUnread /\ MsgInvalid(req[r].msg)) =>
      /\ Status(req[r].out) = 400
      /\ req[r].writes = <<>>
      /\ IsNone(req[r].resp)

\* C10, amended: a chat request whose msg is empty, missing or not a string,
\* once the limiter has passed it on, is answered with 400 without a lookup, an
\* agent call or a change of any session mapping; the one change of the store
\* is the limiter's write to the quota counter of the caller's IP.
C10_InvalidMsgConsumesQuotaOnly ==
  /\ [] \A r \in Reqs :
       (req[r].pc = "done" /\ req[r].msg # JUnread /\ MsgInvalid(req[r].msg)) =>
         /\ req[r].out = "validation"
         /\ Status(req[r].out) = 400
         /\ req[r].writes = <<RateKey(req[r].ip)>>
         /\ IsNone(req[r].resp)
         /\ ~req[r].looked
  /\ [][\A r \in Reqs :
          (req[r].pc = "body" /\ req'[r].pc = "done") =>
            (MsgInvalid(req'[r].msg) \/ req'[r].tokenIn = JUnread) /\ store' = store]_vars

\* The request {msg: ""} has been answered with 400, and the counter of its IP,
\* absent before, holds limit - 1.
C10_Witness ==
  \E r \in Reqs :
    /\ req[r].pc = "done" /\ req[r].msg = JString(<<>>) /\ req[r].out = "validation"
    /\ req[r].writes = <<RateKey(req[r].ip)>>
    /\ limit = 2 /\ GetRemainingRequests(store, limit, req[r].ip) = 1


\* C11: a request whose limiter read, initialisation or decrement is rejected by
\* the store is not admitted: the counter and the admissions stay as they were,
\* the body is never read, no lookup and no agent call happen, and the request
\* ends with that error; a store call rejected inside a turn ends the turn with
\* an error, never with a success response.
C11_StoreFailureNeverAdmits ==
  /\ [] \A r \in Reqs :
          /\ req[r].out = "store_gate" =>
               /\ req[r].pc = "done"
               /\ req[r].msg = JUnread /\ req[r].tokenIn = JUnread
               /\ ~req[r].looked
               /\ IsNone(req[r].agentStatus) /\ IsNone(req[r].resp)
               /\ req[r].writes = <<>>
          /\ req[r].out = "store_turn" => (req[r].pc = "done" /\ ~Succeeded(req[r]))
  /\ [][\A r \in Reqs :
          /\ (req[r].out = "" /\ req'[r].out = "store_gate") =>
               (store' = store /\ admitted' = admitted)
          /\ (req[r].out = "" /\ req'[r].out = "store_turn") => store' = store
          /\ (req[r].out \in {"store_gate", "store_turn"} /\ req'[r] # req[r]) =>
               (req'[r] = Idle /\ store' = store)]_vars

\* The decrement of one request was rejected after it had read 1, and a store
\* call of another request's turn was rejected after its agent call.
C11_Witness ==
  \E r, q \in Reqs :
    /\ req[r].out = "store_gate" /\ req[r].cur = Some(1)
    /\ req[q].out = "store_turn" /\ ~IsNone(req[q].resp)

\* C12: whenever the limiter rejects a request, the caller is sent a 429 whose
\* message holds the configured limit, and the request's body is never read nor
\* its chat handler run.
C12_RejectedReceives429 ==
  \A r \in Reqs :
    Rejected(req[r]) =>
      /\ ~exited
      /\ Response(req[r], limit).status = 429
      /\ SubSeq(Response(req[r], limit).message, 2, 1 + Len(ToString(limit))) = ToString(limit)
      /\ req[r].msg = JUnread /\ req[r].tokenIn = JUnread /\ ~req[r].looked

\* C13: a request to /health or / is passed on by the limiter at once, whatever
\* the counter of its IP holds, without a read and without a write of the store.
C13_ExemptPathsBypass ==
  /\ [] \A r \in Reqs :
          (req[r].pc # "idle" /\ req[r].path \in {"/health", "/"}) =>
            /\ req[r].pc = "done" /\ req[r].out = "probe"
            /\ IsNone(req[r].cur)
            /\ req[r].writes = <<>>
  /\ [][\A r \in Reqs :
          (req[r].pc = "idle" /\ req'[r].pc # "idle" /\ req'[r].path \in {"/health", "/"}) =>
            (store' = store /\ admitted' = admitted)]_vars

\* A probe of / has passed while the counter of its IP is negative.
C13_Witness ==
  \E r \in Reqs :
    /\ req[r].out = "probe" /\ req[r].path = "/"
    /\ Has(store, RateKey(req[r].ip))
    /\ ParseInt(store[RateKey(req[r].ip)].val) < 0

\* C14: remaining(ip) returns the value of the counter when the IP has one and
\* the configured limit when it has none, and leaves the store as it is.
C14_RemainingReadsCounter ==
  [][\A r \in Reqs :
       (req[r].pc = "quota" /\ req'[r].pc = "done" /\ req'[r].out # "store_turn") =>
         /\ store' = store
         /\ req'[r].remaining =
              Some(IF Has(store, RateKey(req[r].ip))
                   THEN ParseInt(store[RateKey(req[r].ip)].val)
                   ELSE limit)]_vars

\* One turn was told the limit, its counter having expired meanwhile, while
\* another was told the value of the counter.
C14_Witness ==
  \E r, q \in Reqs :
    /\ limit = 2
    /\ Succeeded(req[r]) /\ req[r].remaining = Some(2)
    /\ Succeeded(req[q]) /\ req[q].remaining = Some(1)
    /\ Has(store, RateKey(req[q].ip)) /\ store[RateKey(req[q].ip)].val = <<"1">>


\* C15: a failed agent call ends the turn with exactly one of four errors: 429
\* for the agent's status 429, 502 for a status >= 500, 401 for the status 401,
\* and 400 for every other failure.
C15_AgentErrorClasses ==
  \A r \in Reqs :
    (req[r].pc = "done" /\ ~IsNone(req[r].agentStatus) /\ IsNone(req[r].resp)) =>
      LET st == Val(req[r].agentStatus)
      IN  /\ req[r].out \in AgentErrors
          /\ req[r].out = "agent_rate_limited" <=> st = 429
          /\ req[r].out = "agent_unavailable" <=> st >= 500
          /\ req[r].out = "agent_unauthorized" <=> st = 401
          /\ req[r].out = "agent_generic" <=> (st # 429 /\ st < 500 /\ st # 401)
          /\ Status(req[r].out) =
               (IF st = 429 THEN 429 ELSE IF st >= 500 THEN 502
                ELSE IF st = 401 THEN 401 ELSE 400)

\* The agent has answered one turn with 500 and another with 400.
C15_Witness ==
  \E r, q \in Reqs :
    /\ req[r].pc = "done" /\ req[r].agentStatus = Some(500) /\ req[r].out = "agent_unavailable"
    /\ req[q].pc = "done" /\ req[q].agentStatus = Some(400) /\ req[q].out = "agent_generic"

\* C16: a turn whose agent call gets no answer within the timeout fails with the
\* upstream-unavailable error (502), and writes no session mapping.
C16_TimeoutIsUnavailable ==
  \A r \in Reqs :
    (req[r].pc = "done" /\ req[r].agentStatus = Some(0)) =>
      /\ req[r].out = "agent_unavailable"
      /\ Status(req[r].out) = 502
      /\ \A i \in 1..Len(req[r].writes) : req[r].writes[i][1] # "token"

\* C17: every key a continuation handle is stored under is a token the system
\* generated itself.
C17_KeysAreGenerated ==
  \A k \in DOMAIN store : k[1] = "token" => k[2] \in Issued

\* C18: a request that has read a value above 0 is admitted by its decrement
\* whatever the counter holds by then, and that decrement takes one from the
\* value the counter has at that moment: the read is not repeated.  Two requests
\* of one IP that both read 1 are so both admitted, and leave the counter at -1.
C18_DecrementAfterStaleRead ==
  [][\A r \in Reqs :
       (req[r].pc = "decr" /\ req'[r] # req[r] /\ req'[r].out # "store_gate") =>
         LET k == RateKey(req[r].ip)
         IN  /\ ~IsNone(req[r].cur) /\ Val(req[r].cur) > 0
             /\ req'[r].pc = "body"
             /\ Has(store', k)
             /\ ParseInt(store'[k].val) =
                  (IF Has(store, k) THEN ParseInt(store[k].val) ELSE 0) - 1]_vars

\* Both requests of the IP have read 1, both have been admitted, and the counter
\* is at -1.
C18_Witness ==
  \E r, q \in Reqs :
    /\ r # q /\ req[r].ip = req[q].ip
    /\ req[r].pc = "body" /\ req[r].cur = Some(1)
    /\ req[q].pc = "body" /\ req[q].cur = Some(1)
    /\ store[RateKey(req[r].ip)].val = <<"-", "1">>

\* C19: with a limit >= 1 and at most NumReqs requests of an IP in flight at a
\* time, the counter of the IP is never below -NumReqs.
C19_CounterBoundedBelow ==
  limit >= 1 =>
    \A ip \in IPs :
      Has(store, RateKey(ip)) => ParseInt(store[RateKey(ip)].val) >= 0 - NumReqs

\* Every request in flight read a value above 0, the counter expired, and their
\* decrements have taken the counter, created anew by the first, to -NumReqs.
C19_Witness ==
  \E ip \in IPs :
    /\ limit >= 1 /\ Cardinality(InFlight) = NumReqs
    /\ Has(store, RateKey(ip)) /\ ParseInt(store[RateKey(ip)].val) = 0 - NumReqs

\* C20: while the counter of an IP exists, no step of any request moves its
\* expiry later than the one it was created with.
C20_ExpiryFixedAtCreation ==
  [][\A ip \in IPs :
       (Has(store, RateKey(ip)) /\ Has(store', RateKey(ip))) =>
         LET e == store[RateKey(ip)].exp
             f == store'[RateKey(ip)].exp
         IN  f = e \/ (f # NoExpiry /\ (e = NoExpiry \/ f < e))]_vars


\* C21: the counter of an IP goes away only by the store's expiry, never by a
\* step of a request, and it comes into being only by the initialisation of a
\* request that found none: it then holds limit - 1, is due to expire 24 hours
\* later, and that request is admitted.  So every counter is removed in the end
\* and a rejected IP is admitted again.
C21_RemovedAndRecreated ==
  [][\A ip \in IPs :
       /\ (Has(store, RateKey(ip)) /\ ~Has(store', RateKey(ip))) => now' > now
       /\ (~Has(store, RateKey(ip)) /\ Has(store', RateKey(ip))) =>
            /\ ParseInt(store'[RateKey(ip)].val) = limit - 1
            /\ store'[RateKey(ip)].exp = now + CounterTTL
            /\ \E r \in Reqs :
                 req[r].pc = "set" /\ req[r].ip = ip /\ req'[r].pc = "body"]_vars

\* C26: every quota counter in the store carries an expiry, one that lies ahead.
C26_EveryCounterExpires ==
  \A ip \in IPs :
    Has(store, RateKey(ip)) =>
      (store[RateKey(ip)].exp # NoExpiry /\ store[RateKey(ip)].exp > now)

\* C27: while the counter of an IP exists, a step either leaves its value or
\* takes exactly 1 from it.
C27_ValueNeverIncreases ==
  [][\A ip \in IPs :
       (Has(store, RateKey(ip)) /\ Has(store', RateKey(ip))) =>
         \/ ParseInt(store'[RateKey(ip)].val) = ParseInt(store[RateKey(ip)].val)
         \/ ParseInt(store'[RateKey(ip)].val) = ParseInt(store[RateKey(ip)].val) - 1]_vars

\* C28: with a limit N >= 1 and at most NumReqs requests of an IP in flight at a
\* time, at most N + (NumReqs - 1) requests of the IP are admitted between the
\* creation of its counter and the counter's expiry.
C28_OverAdmissionBounded ==
  limit >= 1 => \A ip \in IPs : admitted[ip] <= limit + (NumReqs - 1)

\* C29: a turn that has ended in an error has not written the session mapping.
C29_FailedTurnKeepsMapping ==
  \A r \in Reqs :
    (req[r].pc = "done" /\ req[r].out \notin {"ok", "probe"}) =>
      \A i \in 1..Len(req[r].writes) : req[r].writes[i][1] # "token"


\* How far a request has come.
Rank(pc) ==
  CASE pc = "idle" -> 0
    [] pc \in {"set", "decr"} -> 1
    [] pc = "body" -> 2
    [] pc = "lookup" -> 3
    [] pc = "agent" -> 4
    [] pc = "persist" -> 5
    [] pc = "quota" -> 6
    [] pc = "done" -> 7
\* The request has written the session mapping of its token.
WroteMapping(q) == \E i \in 1..Len(q.writes) : q.writes[i][1] = "token"

\* C22: a request whose body has been validated, whose token has been looked up,
\* whose agent call has been made or whose handle has been persisted has had its
\* counter written by the limiter first; the agent call comes after the token is
\* resolved, the persistence after the agent call, the quota read after the
\* persistence; and no step takes a request back.
C22_PipelineOrder ==
  /\ [] \A r \in Reqs :
          /\ (\/ req[r].msg # JUnread \/ req[r].looked \/ ~IsNone(req[r].agentStatus)
              \/ WroteMapping(req[r]))
               => (Len(req[r].writes) >= 1 /\ req[r].writes[1][1] = "rate_limit")
          /\ ~IsNone(req[r].agentStatus) =>
               (Len(req[r].token) >= 1 /\ (~req[r].isNew => req[r].looked))
          /\ WroteMapping(req[r]) =>
               (~IsNone(req[r].resp) /\ Len(req[r].writes) = 2
                /\ req[r].writes[2][1] = "token")
          /\ ~IsNone(req[r].remaining) => WroteMapping(req[r])
  /\ [][\A r \in Reqs :
          (req'[r] # req[r] /\ req'[r] # Idle) => Rank(req'[r].pc) > Rank(req[r].pc)]_vars

\* A turn with a token of its own has gone through every stage and succeeded.
C22_Witness ==
  \E r \in Reqs :
    /\ Succeeded(req[r]) /\ req[r].looked /\ ~IsNone(req[r].prior)
    /\ Len(req[r].writes) = 2 /\ ~IsNone(req[r].remaining)

\* C24: a step of a request from IP a with token t leaves every key but the
\* counter of a and the mapping of t as it is; a step of the limiter leaves every
\* session mapping, and has looked none up; a step of the turn leaves every
\* counter.
C24_WritesOnlyOwnKeys ==
  [][\A r \in Reqs :
       req'[r] # req[r] =>
         LET ip == IF req[r].pc = "idle" THEN req'[r].ip ELSE req[r].ip
             tok == IF req'[r].pc = "idle" THEN req[r].token ELSE req'[r].token
             own == {<<"rate_limit", ip>>, <<"token", tok, "lastResponseId">>}
             Same(k) == k \in DOMAIN store /\ k \in DOMAIN store' /\ store'[k] = store[k]
             all == DOMAIN store \cup DOMAIN store'
         IN  /\ \A k \in all \ own : Same(k)
             /\ req[r].pc \in {"idle", "set", "decr"} =>
                  /\ \A k \in all : k[1] = "token" => Same(k)
                  /\ ~req'[r].looked /\ IsNone(req'[r].prior)
             /\ req[r].pc \notin {"idle", "set", "decr"} =>
                  \A k \in all : k[1] = "rate_limit" => Same(k)]_vars

\* A turn of the second IP has succeeded while the store holds the counter of
\* the first IP and the mapping of another token.
C24_Witness ==
  \E r \in Reqs :
    /\ Succeeded(req[r]) /\ req[r].ip = "10.0.0.2"
    /\ Has(store, RateKey("10.0.0.1")) /\ Has(store, RateKey("10.0.0.2"))
    /\ \E t \in Tokens : t # req[r].token /\ Has(store, TokenKey(t))
    /\ Has(store, TokenKey(req[r].token))

\* C25: a request writes no key twice, every step takes it forward, what it has
\* read or been answered is not read or asked again, and a store call or agent
\* call that fails ends it.
C25_NoRetry ==
  /\ [] \A r \in Reqs :
          /\ Len(req[r].writes) <= 2
          /\ Len(req[r].writes) = 2 => req[r].writes[1] # req[r].writes[2]
          /\ req[r].out \in {"store_gate", "store_turn"} \cup AgentErrors =>
               req[r].pc = "done"
  /\ [][\A r \in Reqs :
          (req'[r] # req[r] /\ req'[r] # Idle) =>
            /\ Rank(req'[r].pc) > Rank(req[r].pc)
            /\ req[r].pc # "done"
            /\ ~IsNone(req[r].agentStatus) => req'[r].agentStatus = req[r].agentStatus
            /\ ~IsNone(req[r].resp) => req'[r].resp = req[r].resp
            /\ req[r].looked => (req'[r].looked /\ req'[r].prior = req[r].prior)
            /\ Len(req'[r].writes) <= Len(req[r].writes) + 1]_vars

\* The quota read of one turn was rejected by the store after its handle was
\* persisted, and the agent call of another has failed.
C25_Witness ==
  \E r, q \in Reqs :
    /\ req[r].out = "store_turn" /\ Len(req[r].writes) = 2
    /\ req[q].pc = "done" /\ req[q].out \in AgentErrors

\* C30: the persistence of a turn leaves the token mapped to the handle the
\* agent returned to that turn, whatever the mapping held, and nothing but the
\* persistence of a turn under the token gives the mapping a value: after two
\* overlapping turns the mapping is the handle of the one that persisted last.
C30_LastWriterWins ==
  [][/\ \A r \in Reqs :
          (req[r].pc = "persist" /\ req'[r].pc = "quota") =>
            /\ Has(store', TokenKey(req[r].token))
            /\ store'[TokenKey(req[r].token)].val = Val(req[r].resp)
            /\ req[r].agentStatus = Some(200) /\ Val(req[r].resp) \in Handles
     /\ \A t \in Tokens :
          (/\ Has(store', TokenKey(t))
           /\ ~Has(store, TokenKey(t)) \/ store'[TokenKey(t)].val # store[TokenKey(t)].val)
            => \E r \in Reqs :
                 /\ req[r].pc = "persist" /\ req'[r].pc = "quota" /\ req[r].token = t
                 /\ store'[TokenKey(t)].val = Val(req[r].resp)]_vars

\* Two overlapping turns under one token have both resolved the handle h1 and
\* both succeeded, with different handles; the token maps to one of them.
C30_Witness ==
  \E r, q \in Reqs :
    /\ r # q /\ req[r].token = req[q].token
    /\ Succeeded(req[r]) /\ Succeeded(req[q])
    /\ req[r].prior = Some(<<"h", 1>>) /\ req[q].prior = Some(<<"h", 1>>)
    /\ req[r].resp = Some(<<"h", 1>>) /\ req[q].resp = Some(<<"h", 2>>)
    /\ store[TokenKey(req[r].token)].val = <<"h", 1>>


\* The quota read of the turn of r has returned.
QuotaWasRead(r) ==
  req[r].pc = "done" /\ ~IsNone(req[r].remaining) /\ ~IsNone(ownWrite[r].val)

\* C23: the remaining value of a turn equals the value the request's own
\* initialisation or decrement left when no other request of the IP was admitted
\* in between, and is lower than it when others were.
C23_RemainingOwnOrLower ==
  \A r \in Reqs :
    QuotaWasRead(r) =>
      /\ ~ownWrite[r].others => Val(req[r].remaining) = Val(ownWrite[r].val)
      /\ ownWrite[r].others => Val(req[r].remaining) < Val(ownWrite[r].val)

\* C23, amended: as long as the counter has not expired and has not been
\* initialised again since the request's own write, the remaining value of its
\* turn equals the value that write left when no other request of the IP was
\* admitted in between, and is lower when others were; and it is the value the
\* counter has when the quota is read, or the limit if there is no counter then.
C23_RemainingFreshRead ==
  /\ [] \A r \in Reqs :
          (QuotaWasRead(r) /\ ~ownWrite[r].reset) =>
            /\ ~ownWrite[r].others => Val(req[r].remaining) = Val(ownWrite[r].val)
            /\ ownWrite[r].others => Val(req[r].remaining) < Val(ownWrite[r].val)
  /\ [][\A r \in Reqs :
          (req[r].pc = "quota" /\ req'[r].pc = "done") =>
            req'[r].remaining =
              Some(IF <<"rate_limit", req[r].ip>> \in DOMAIN store
                   THEN ParseInt(store[<<"rate_limit", req[r].ip>>].val)
                   ELSE limit)]_vars

\* One turn reports 0 after its own write left 1 and another request of the IP
\* was admitted by a decrement in between; the other turn reports its own value.
C23_Witness ==
  \E r, q \in Reqs :
    /\ QuotaWasRead(r) /\ ownWrite[r].others /\ ~ownWrite[r].reset
    /\ ownWrite[r].val = Some(1) /\ req[r].remaining = Some(0)
    /\ QuotaWasRead(q) /\ ~ownWrite[q].others /\ ~ownWrite[q].reset
    /\ ownWrite[q].val = Some(0) /\ req[q].remaining = Some(0)

====
